---- MODULE Spec2Model ----
(***************************************************************************)
(* Model of vmpt.c: the range-qualified loader (parse_range, load_file,    *)
(* load_pt), the synchronization driver (dump, dump_sync, dump_packets),   *)
(* the bundle extraction state machine (dump_bundle) and main.             *)
(*                                                                         *)
(* The trace packet decoder (libipt: pt_pkt_alloc_decoder, pt_pkt_sync_*,  *)
(* pt_pkt_get_offset, pt_pkt_next) and the C library (fopen, fseek, ftell, *)
(* malloc, fread) are external: every result they can hand back to this    *)
(* code is drawn nondeterministically at the call.                         *)
(*                                                                         *)
(* Integer widths are scaled down: uint64_t has UBits bits, long has       *)
(* long_bits bits (UBits on an LP64 build, UBits-1 on a build whose long   *)
(* is narrower than uint64_t).                                             *)
(***************************************************************************)
EXTENDS Integers, Sequences, FiniteSets, TLC

VARIABLES
    pc,            \* position of the single thread of control
    argv,          \* argv[1..argc-1], each "opt" (starts with '-') or "file"
    range,         \* text after the first ':' of the file argument, or NoRange
    file_size,     \* size of the trace file on disk
    long_bits,     \* width of the build's long
    begin_arg,     \* load_file locals
    end_arg,
    fsize,
    begin,
    end,
    content,
    file,          \* load_file's FILE handle: "closed" or "open"
    lf_ret,        \* load_file's return value
    errmsg,        \* last line written to stderr
    mallocs,       \* number of trace buffers obtained from malloc
    frees,         \* number of trace buffers handed to free
    config,        \* config.begin / config.end as [buffer, size]
    fp,            \* the output stream: "null", "open" or "closed"
    out,           \* what has been written to bundles.json, one item per fprintf
    got_pip,       \* state flags
    got_pad,
    got_vmcs,
    pad_cnt,
    packet,        \* dump_packets' local packet
    ret,           \* value dump_bundle handed back to dump_packets
    decoder,       \* "none", "allocated" or "freed"
    pos,           \* decoder position, in packets
    at_psb,        \* the decoder stands on a PSB found by pt_pkt_sync_forward
    pkt_errcode,   \* dump_packets' errcode after pt_pkt_get_offset / pt_pkt_next
    sync_errcode,  \* dump_sync's errcode after the last pt_pkt_sync_* call
    errcode,       \* main's errcode
    lastDiag,      \* last line written by diag
    exit_status,   \* <<"running">>, <<"exit", status>> or <<"signal">>
    pre,           \* history: flags, counter and output before the last dump_bundle
    pads_since,    \* history: Padding packets handed over since the bundle's ContextChange
    gok,           \* history: packets handed over so far form complete sequences
    gphase,        \* history: place inside the current sequence
    gcur,          \* history: payloads of the current sequence
    gexp,          \* history: records of the sequences completed so far
    gmixed,        \* history: a packet of another type came inside a sequence
    gfault         \* history: bytes that do not decode were met while the record
                   \*          opened last was open

vars == <<pc, argv, range, file_size, long_bits, begin_arg, end_arg, fsize, begin,
          end, content, file, lf_ret, errmsg, mallocs, frees, config, fp, out,
          got_pip, got_pad, got_vmcs, pad_cnt, packet, ret, decoder, pos, at_psb,
          pkt_errcode, sync_errcode, errcode, lastDiag, exit_status, pre,
          pads_since, gok, gphase, gcur, gexp, gmixed, gfault>>

loaderVars == <<begin_arg, end_arg, fsize, begin, end, content, file, lf_ret>>
bundleVars == <<got_pip, got_pad, got_vmcs, pad_cnt>>
ghostVars == <<pre, pads_since, gok, gphase, gcur, gexp, gmixed>>
driverVars == <<packet, ret, decoder, pos, at_psb, pkt_errcode, sync_errcode,
                lastDiag>>
inputVars == <<argv, range, file_size, long_bits>>

-----------------------------------------------------------------------------
(* Bounds *)

\* scaled width of uint64_t
UBits == 4
\* largest trace file, in bytes
MaxFileSize == 3
\* longest range specifier, in characters
MaxRangeLen == 3
\* most arguments after argv[0]
MaxArgs == 2
\* length of the packet stream the decoder can yield
MaxPos == 16
\* most sub-objects written while the state machine is fed directly
MaxSub == 6

-----------------------------------------------------------------------------
(* Integer arithmetic of the build *)

RECURSIVE Pow2(_)
Pow2(n) == IF n = 0 THEN 1 ELSE 2 * Pow2(n - 1)

UMod == Pow2(UBits)
ULLONG_MAX == UMod - 1

LongMax(bits) == Pow2(bits - 1) - 1

\* two's complement wrap of an integer into a signed type of the given width
WrapLong(x, bits) ==
    LET m == x % Pow2(bits)
    IN IF m > LongMax(bits) THEN m - Pow2(bits) ELSE m

\* (long) of a uint64_t
ToLong(x, bits) == WrapLong(x, bits)

\* (uint64_t) of a long
ToU64(l) == l % UMod

\* process exit status of a value returned from main
ExitStatus(r) == <<"exit", r % 256>>

-----------------------------------------------------------------------------
(* Range specifier text *)

NoRange == <<"NULL">>
Digits == {"1", "2", "9"}
Chars == Digits \cup {"-", "x"}

DigitVal(c) == CASE c = "1" -> 1 [] c = "2" -> 2 [] c = "9" -> 9

RECURSIVE SeqsUpTo(_, _)
SeqsUpTo(S, n) ==
    IF n = 0 THEN {<<>>}
    ELSE LET shorter == SeqsUpTo(S, n - 1)
         IN shorter \cup {Append(s, c) : s \in shorter, c \in S}

RECURSIVE LeadingDigits(_)
LeadingDigits(s) ==
    IF s = <<>> \/ Head(s) \notin Digits THEN 0 ELSE 1 + LeadingDigits(Tail(s))

RECURSIVE DecVal(_, _)
DecVal(s, acc) ==
    IF s = <<>> THEN acc ELSE DecVal(Tail(s), 10 * acc + DigitVal(Head(s)))

\* strtoull(s, &rest, 0) on text without blanks, '+' or a leading '0'
Strtoull(s) ==
    LET neg == s # <<>> /\ Head(s) = "-"
        body == IF neg THEN Tail(s) ELSE s
        n == LeadingDigits(body)
        v == DecVal(SubSeq(body, 1, n), 0)
        rest == SubSeq(body, n + 1, Len(body))
    IN IF n = 0 THEN [val |-> 0, rest |-> s, erange |-> FALSE]
       ELSE IF v > ULLONG_MAX
            THEN [val |-> ULLONG_MAX, rest |-> rest, erange |-> TRUE]
       ELSE [val |-> IF neg THEN (UMod - v) % UMod ELSE v,
             rest |-> rest, erange |-> FALSE]

parse_range(arg, b, e) ==
    IF arg = NoRange THEN [ret |-> 0, begin |-> b, end |-> e]
    ELSE LET r1 == Strtoull(arg)
         IN IF r1.erange THEN [ret |-> -1, begin |-> r1.val, end |-> e]
            ELSE IF r1.rest = <<>> THEN [ret |-> 0, begin |-> r1.val, end |-> e]
            ELSE IF Head(r1.rest) # "-" THEN [ret |-> -1, begin |-> r1.val, end |-> e]
            ELSE LET r2 == Strtoull(Tail(r1.rest))
                 IN IF r2.erange \/ r2.rest # <<>>
                    THEN [ret |-> -1, begin |-> r1.val, end |-> r2.val]
                    ELSE [ret |-> 0, begin |-> r1.val, end |-> r2.val]

\* the bytes of the trace file: the byte at offset o is o
FileBytes == [i \in 1..file_size |-> i - 1]

-----------------------------------------------------------------------------
(* Initial states *)

Args == {"opt", "file"}

\* the state the process starts in, apart from its inputs
InitProgram ==
    /\ begin_arg = 0 /\ end_arg = 0 /\ fsize = 0 /\ begin = 0 /\ end = 0
    /\ content = <<>> /\ file = "closed" /\ lf_ret = 0
    /\ errmsg = "" /\ mallocs = 0 /\ frees = 0
    /\ config = [buffer |-> <<>>, size |-> 0]
    /\ fp = "null" /\ out = <<>>
    /\ got_pip = 0 /\ got_pad = 0 /\ got_vmcs = 0 /\ pad_cnt = 0
    /\ packet = <<"none">> /\ ret = 0
    /\ decoder = "none" /\ pos = 0 /\ at_psb = FALSE
    /\ pkt_errcode = 0 /\ sync_errcode = 0 /\ errcode = 0
    /\ lastDiag = <<"", 0>> /\ exit_status = <<"running">>
    /\ pre = [got_pip |-> 0, got_pad |-> 0, got_vmcs |-> 0, pad_cnt |-> 0,
              out |-> <<>>]
    /\ pads_since = 0 /\ gok = TRUE /\ gphase = 0 /\ gcur = <<>> /\ gexp = <<>>
    /\ gmixed = FALSE /\ gfault = FALSE

\* load_file is entered with any range specifier, file size and build
InitLoader ==
    /\ InitProgram
    /\ pc = "load_open"
    /\ argv = <<"file">>
    /\ range \in {NoRange} \cup SeqsUpTo(Chars, MaxRangeLen)
    /\ file_size \in 0..MaxFileSize
    /\ long_bits \in {UBits - 1, UBits}

-----------------------------------------------------------------------------
(* load_file *)

\* load_file returns -1: err_file closes the file, err_content frees first
LoadFail(msg, freed) ==
    /\ errmsg' = msg
    /\ lf_ret' = -1
    /\ file' = "closed"
    /\ frees' = IF freed THEN frees + 1 ELSE frees
    /\ pc' = "load_ret"

\* fopen, fseek(SEEK_END), ftell
LoadFileOpen ==
    /\ pc = "load_open"
    /\ \E io \in {"ok", "open_fail", "seek_fail", "tell_fail"} :
         CASE io = "open_fail" ->
                /\ errmsg' = "failed to open"
                /\ lf_ret' = -1
                /\ pc' = "load_ret"
                /\ UNCHANGED <<file, fsize, frees>>
           [] io = "seek_fail" ->
                /\ LoadFail("failed to determine size", FALSE)
                /\ UNCHANGED fsize
           [] io = "tell_fail" ->
                /\ LoadFail("failed to determine size", FALSE)
                /\ UNCHANGED fsize
           [] io = "ok" ->
                /\ file_size <= LongMax(long_bits)
                /\ file' = "open"
                /\ fsize' = file_size
                /\ pc' = "load_range"
                /\ UNCHANGED <<errmsg, lf_ret, frees>>
    /\ UNCHANGED <<begin_arg, end_arg, begin, end, content, mallocs>>
    /\ UNCHANGED <<inputVars, config, fp, out, bundleVars, driverVars, errcode,
                   exit_status, ghostVars, gfault>>

\* the checks of lines 142-162 on the converted bounds
RangeCheck(fs, b, e, ba, ea) ==
    IF ToU64(b) # ba \/ ToU64(e) # ea THEN "invalid offset/range argument"
    ELSE IF fs <= b THEN "offset outside"
    ELSE IF fs < e THEN "range outside"
    ELSE IF e <= b THEN "bad range"
    ELSE "ok"

\* parse_range, the conversions to long and the range checks
LoadFileRange ==
    /\ pc = "load_range"
    /\ LET r == parse_range(range, 0, fsize)
           b == ToLong(r.begin, long_bits)
           e == ToLong(r.end, long_bits)
           chk == RangeCheck(fsize, b, e, r.begin, r.end)
       IN /\ begin_arg' = r.begin
          /\ end_arg' = r.end
          /\ IF r.ret < 0
             THEN /\ LoadFail("bad range: ", FALSE)
                  /\ UNCHANGED <<begin, end>>
             ELSE /\ begin' = b
                  /\ end' = e
                  /\ IF chk # "ok"
                     THEN LoadFail(chk, FALSE)
                     ELSE /\ pc' = "load_alloc"
                          /\ UNCHANGED <<errmsg, lf_ret, file, frees>>
    /\ UNCHANGED <<fsize, content, mallocs>>
    /\ UNCHANGED <<inputVars, config, fp, out, bundleVars, driverVars, errcode,
                   exit_status, ghostVars, gfault>>

\* fsize = end - begin; content = malloc(fsize)
LoadFileAlloc ==
    /\ pc = "load_alloc"
    /\ LET len == end - begin
           overflow == len > LongMax(long_bits)
       IN \/ \* signed overflow traps
             /\ overflow
             /\ pc' = "crashed"
             /\ exit_status' = <<"signal">>
             /\ UNCHANGED <<fsize, content, mallocs, errmsg, lf_ret, file, frees>>
          \/ \* malloc returns NULL
             /\ fsize' = WrapLong(len, long_bits)
             /\ LoadFail("failed to allocated memory", FALSE)
             /\ UNCHANGED <<content, mallocs, exit_status>>
          \/ \* malloc returns a buffer, its bytes not yet read (-1 each); a wrapped,
             \* negative length is never granted
             /\ ~overflow
             /\ fsize' = len
             /\ mallocs' = mallocs + 1
             /\ content' = [i \in 1..len |-> 0 - 1]
             /\ pc' = "load_read"
             /\ UNCHANGED <<errmsg, lf_ret, file, frees, exit_status>>
    /\ UNCHANGED <<begin_arg, end_arg, begin, end>>
    /\ UNCHANGED <<inputVars, config, fp, out, bundleVars, driverVars, errcode,
                   ghostVars, gfault>>

\* variant with a fault: the read starts at the beginning of the file
ReadSlice_no_seek(b, n) == SubSeq(FileBytes, 1, n)

\* what fread delivers after fseek(file, b, SEEK_SET)
ReadSlice(b, n) == SubSeq(FileBytes, b + 1, b + n)

\* fseek(begin), fread, fclose, *buffer = content, *size = fsize
LoadFileRead ==
    /\ pc = "load_read"
    /\ \/ \* fseek fails
          /\ LoadFail("failed to load", TRUE)
          /\ UNCHANGED content
       \/ \* fread delivers less than fsize bytes
          /\ begin >= 0
          /\ LoadFail("failed to load", TRUE)
          /\ UNCHANGED content
       \/ /\ begin >= 0
          /\ begin + fsize <= file_size
          /\ content' = ReadSlice(begin, fsize)
          /\ file' = "closed"
          /\ lf_ret' = 0
          /\ pc' = "load_ret"
          /\ UNCHANGED <<errmsg, frees>>
    /\ UNCHANGED <<begin_arg, end_arg, fsize, begin, end, mallocs>>
    /\ UNCHANGED <<inputVars, config, fp, out, bundleVars, driverVars, errcode,
                   exit_status, ghostVars, gfault>>

\* variant with a fault: main goes on to the output whatever load_pt returned
main_after_load_unchecked(e) == "open_out"

\* main after load_pt: a negative errcode is returned at once
main_after_load(e) == IF e < 0 THEN "done" ELSE "open_out"

\* load_pt hands the buffer to config, or main returns load_file's error
LoadPt ==
    /\ pc = "load_ret"
    /\ IF main_after_load(lf_ret) = "done"
       THEN /\ errcode' = lf_ret
            /\ exit_status' = ExitStatus(lf_ret)
            /\ pc' = "done"
            /\ UNCHANGED config
       ELSE /\ errcode' = 0
            /\ config' = [buffer |-> content, size |-> fsize]
            /\ pc' = "open_out"
            /\ UNCHANGED exit_status
    /\ UNCHANGED <<loaderVars, errmsg, mallocs, frees>>
    /\ UNCHANGED <<inputVars, fp, out, bundleVars, driverVars, ghostVars, gfault>>

-----------------------------------------------------------------------------
(* Packets *)

\* the number of Padding packets that completes the padding run
PadRun == 8

\* ContextChange payloads <<cr3, nr>>
PipPayloads == {<<1, 0>>, <<2, 1>>}
VmcsBases == {3, 4}
Tscs == {5, 6}

PipPackets == {<<"ppt_pip", c[1], c[2]>> : c \in PipPayloads}
VmcsPackets == {<<"ppt_vmcs", b>> : b \in VmcsBases}
TscPackets == {<<"ppt_tsc", t>> : t \in Tscs}
\* packet types dump_bundle has no case for
OtherPackets == {<<"ppt_psb">>, <<"ppt_tnt">>}
Packets == PipPackets \cup {<<"ppt_pad">>} \cup VmcsPackets \cup TscPackets
               \cup OtherPackets

\* the values a call that runs off the end of dump_bundle can hand back
UndefRet == {-1, 0, 1}

-----------------------------------------------------------------------------
(* dump_bundle: s is [got_pip, got_pad, got_vmcs, pad_cnt, out] *)

BundleState == [got_pip |-> got_pip, got_pad |-> got_pad, got_vmcs |-> got_vmcs,
                pad_cnt |-> pad_cnt, out |-> out]

\* variant with a fault: a ContextChange restarts the bundle whatever got_pip is
case_ppt_pip_always(p, s) ==
    [s EXCEPT !.out = s.out \o << <<"{">>, <<"packet[">>, <<"PIP", p[2], p[3]>> >>,
              !.got_pip = 1]

\* variant with a fault: the record is opened and got_pip is left at 0
case_ppt_pip_no_flag(p, s) ==
    IF s.got_pip = 0
    THEN [s EXCEPT !.out = s.out \o << <<"{">>, <<"packet[">>, <<"PIP", p[2], p[3]>> >>]
    ELSE s

case_ppt_pip(p, s) ==
    IF s.got_pip = 0
    THEN [s EXCEPT !.out = s.out \o << <<"{">>, <<"packet[">>, <<"PIP", p[2], p[3]>> >>,
                   !.got_pip = 1]
    ELSE s

case_ppt_pad(p, s) ==
    LET cnt == IF s.got_pip = 1 /\ s.pad_cnt < PadRun THEN s.pad_cnt + 1 ELSE s.pad_cnt
    IN IF cnt = PadRun
       THEN [s EXCEPT !.pad_cnt = 0, !.got_pad = 1]
       ELSE [s EXCEPT !.pad_cnt = cnt]

case_ppt_vmcs(p, s) ==
    IF s.got_pad = 1 /\ s.got_pip = 1
    THEN [s EXCEPT !.out = Append(s.out, <<"VMCS", p[2]>>), !.got_vmcs = 1]
    ELSE s

\* variant with a fault: an accepted Timestamp clears all of the state
case_ppt_tsc_clears_all(p, s) ==
    IF s.got_pip = 1 /\ s.got_vmcs = 1
    THEN [s EXCEPT !.out = s.out \o << <<"TSC", p[2]>>, <<"]}">> >>,
                   !.got_pip = 0, !.got_pad = 0, !.got_vmcs = 0, !.pad_cnt = 0]
    ELSE s

\* variant with a fault: an accepted Timestamp leaves got_pip set
case_ppt_tsc_keeps_pip(p, s) ==
    IF s.got_pip = 1 /\ s.got_vmcs = 1
    THEN [s EXCEPT !.out = s.out \o << <<"TSC", p[2]>>, <<"]}">> >>,
                   !.got_vmcs = 0]
    ELSE s

case_ppt_tsc(p, s) ==
    IF s.got_pip = 1 /\ s.got_vmcs = 1
    THEN [s EXCEPT !.out = s.out \o << <<"TSC", p[2]>>, <<"]}">> >>,
                   !.got_pip = 0, !.got_vmcs = 0]
    ELSE s

\* the state dump_bundle leaves behind
dump_bundle(p, s) ==
    CASE p[1] = "ppt_pip" -> case_ppt_pip(p, s)
      [] p[1] = "ppt_pad" -> case_ppt_pad(p, s)
      [] p[1] = "ppt_vmcs" -> case_ppt_vmcs(p, s)
      [] p[1] = "ppt_tsc" -> case_ppt_tsc(p, s)
      [] OTHER -> s

\* the values dump_bundle can return: 0 from its four cases; for any other
\* packet type control runs off the end of the function without a return
dump_bundle_ret(p) ==
    IF p[1] \in {"ppt_pip", "ppt_pad", "ppt_vmcs", "ppt_tsc"} THEN {0} ELSE UndefRet

-----------------------------------------------------------------------------
(* History of the packets handed to dump_bundle *)

Min(a, b) == IF a < b THEN a ELSE b

IsOther(p) == p[1] \notin {"ppt_pip", "ppt_pad", "ppt_vmcs", "ppt_tsc"}

\* the pattern [ContextChange, Padding x PadRun, ControlStructure, Timestamp]*
\* with other packet types anywhere: gphase 0 expects the ContextChange,
\* 1..PadRun the next Padding, PadRun+1 the ControlStructure, PadRun+2 the Timestamp
Observe(p) ==
    /\ pre' = [got_pip |-> got_pip, got_pad |-> got_pad, got_vmcs |-> got_vmcs,
               pad_cnt |-> pad_cnt, out |-> out]
    /\ pads_since' = IF p[1] = "ppt_pip" /\ got_pip = 0 THEN 0
                     ELSE IF p[1] = "ppt_pad" /\ got_pip = 1
                          THEN Min(pads_since + 1, PadRun)
                     ELSE pads_since
    /\ IF ~gok \/ IsOther(p)
       THEN UNCHANGED <<gok, gphase, gcur, gexp>>
       ELSE IF gphase = 0 /\ p[1] = "ppt_pip"
       THEN /\ gphase' = 1
            /\ gcur' = <<p[2], p[3]>>
            /\ UNCHANGED <<gok, gexp>>
       ELSE IF gphase \in 1..PadRun /\ p[1] = "ppt_pad"
       THEN /\ gphase' = gphase + 1
            /\ UNCHANGED <<gok, gcur, gexp>>
       ELSE IF gphase = PadRun + 1 /\ p[1] = "ppt_vmcs"
       THEN /\ gphase' = gphase + 1
            /\ gcur' = Append(gcur, p[2])
            /\ UNCHANGED <<gok, gexp>>
       ELSE IF gphase = PadRun + 2 /\ p[1] = "ppt_tsc"
       THEN /\ gphase' = 0
            /\ gexp' = Append(gexp, Append(gcur, p[2]))
            /\ gcur' = <<>>
            /\ UNCHANGED gok
       ELSE /\ gok' = FALSE
            /\ gphase' = 0
            /\ gcur' = <<>>
            /\ gexp' = <<>>
    /\ gmixed' = (gok' /\ (gmixed \/ (IsOther(p) /\ gphase > 0)))
    /\ gfault' = (gfault /\ ~(p[1] = "ppt_pip" /\ got_pip = 0))

\* one call of dump_bundle on packet p
CallDumpBundle(p) ==
    LET s == dump_bundle(p, BundleState)
    IN /\ got_pip' = s.got_pip
       /\ got_pad' = s.got_pad
       /\ got_vmcs' = s.got_vmcs
       /\ pad_cnt' = s.pad_cnt
       /\ out' = s.out
       /\ ret' \in dump_bundle_ret(p)
       /\ Observe(p)

-----------------------------------------------------------------------------
(* The output text *)

IsSub(t) == t[1] \in {"PIP", "VMCS", "TSC"}
Subobjects(toks) == SelectSeq(toks, IsSub)

IsRecordAt(toks, i) ==
    /\ i + 5 <= Len(toks)
    /\ toks[i] = <<"{">>
    /\ toks[i + 1] = <<"packet[">>
    /\ toks[i + 2][1] = "PIP"
    /\ toks[i + 3][1] = "VMCS"
    /\ toks[i + 4][1] = "TSC"
    /\ toks[i + 5] = <<"]}">>

\* toks is a run of complete records {PIP, VMCS, TSC} and nothing else
RECURSIVE WellFormed(_)
WellFormed(toks) ==
    \/ toks = <<>>
    \/ /\ IsRecordAt(toks, 1)
       /\ WellFormed(SubSeq(toks, 7, Len(toks)))

\* the records <<cr3, nr, base, tsc>> of a well-formed run
RECURSIVE Records(_)
Records(toks) ==
    IF Len(toks) < 6 THEN <<>>
    ELSE << <<toks[3][2], toks[3][3], toks[4][2], toks[5][2]>> >>
             \o Records(SubSeq(toks, 7, Len(toks)))

\* the records written between the opener and the closer of the wrapper
Body(toks) == SelectSeq(toks, LAMBDA t : t \notin {<<"bundle[">>, <<"]">>})

-----------------------------------------------------------------------------
(* The state machine fed directly, as after line 395 of main *)

InitBundle ==
    /\ begin_arg = 0 /\ end_arg = 0 /\ fsize = 0 /\ begin = 0 /\ end = 0
    /\ content = <<>> /\ file = "closed" /\ lf_ret = 0
    /\ errmsg = "" /\ mallocs = 0 /\ frees = 0
    /\ config = [buffer |-> <<>>, size |-> 0]
    /\ fp = "open" /\ out = << <<"bundle[">> >>
    /\ got_pip = 0 /\ got_pad = 0 /\ got_vmcs = 0 /\ pad_cnt = 0
    /\ packet = <<"none">> /\ ret = 0
    /\ decoder = "none" /\ pos = 0 /\ at_psb = FALSE
    /\ pkt_errcode = 0 /\ sync_errcode = 0 /\ errcode = 0
    /\ lastDiag = <<"", 0>> /\ exit_status = <<"running">>
    /\ pre = [got_pip |-> 0, got_pad |-> 0, got_vmcs |-> 0, pad_cnt |-> 0,
              out |-> << <<"bundle[">> >>]
    /\ pads_since = 0 /\ gok = TRUE /\ gphase = 0 /\ gcur = <<>> /\ gexp = <<>>
    /\ gmixed = FALSE /\ gfault = FALSE
    /\ pc = "feed"
    /\ argv = <<"file">> /\ range = NoRange /\ file_size = 0 /\ long_bits = UBits

Feed(p) ==
    /\ pc = "feed"
    /\ Len(Subobjects(out)) < MaxSub
    /\ packet' = p
    /\ CallDumpBundle(p)
    /\ UNCHANGED <<pc, inputVars, loaderVars, errmsg, mallocs, frees, config, fp,
                   decoder, pos, at_psb, pkt_errcode, sync_errcode, errcode,
                   lastDiag, exit_status>>

NextBundle == \E p \in Packets : Feed(p)

SpecBundle == InitBundle /\ [][NextBundle]_vars

-----------------------------------------------------------------------------
(* main and the synchronization driver *)

\* enum pt_error_code of libipt, as used through the calls of this file
pte_invalid == 2
pte_nosync == 3
pte_bad_opc == 4
pte_bad_packet == 5
pte_eos == 7

\* what pt_pkt_next returns for bytes it cannot decode
DecodeErrors == {0 - pte_bad_opc, 0 - pte_bad_packet}

\* the packets the decoder yields to the driver
DriverPackets == {<<"ppt_pip", 1, 0>>, <<"ppt_pad">>, <<"ppt_vmcs", 3>>,
                  <<"ppt_tsc", 5>>, <<"ppt_psb">>}

ArgvShapes == SeqsUpTo(Args, MaxArgs)

\* the process starts in main with any argument vector
Init ==
    /\ InitProgram
    /\ pc = "main"
    /\ argv \in ArgvShapes
    /\ range \in {NoRange, <<"9">>}
    /\ file_size \in {0, MaxFileSize}
    /\ long_bits \in {UBits - 1, UBits}

\* index of the first argument that does not start with '-', 0 if there is none
RECURSIVE FirstFile(_, _)
FirstFile(args, i) ==
    IF i > Len(args) THEN 0
    ELSE IF args[i] # "opt" THEN i
    ELSE FirstFile(args, i + 1)

\* diag prints a line (its offset is left out here) and returns errcode
diag(errstr, code) == [line |-> <<errstr, code>>, ret |-> code]

\* the argument loop, no_file_error, usage, pt_cpu_errata
MainArgs ==
    /\ pc = "main"
    /\ LET i == FirstFile(argv, 1)
       IN IF i = 0
          THEN /\ errmsg' = "No processor trace file specified."
               /\ exit_status' = ExitStatus(-1)
               /\ pc' = "done"
          ELSE IF i < Len(argv)
          THEN /\ errmsg' = "usage"
               /\ exit_status' = ExitStatus(-1)
               /\ pc' = "done"
          ELSE /\ pc' = "load_open"
               /\ UNCHANGED <<errmsg, exit_status>>
    /\ \/ UNCHANGED lastDiag
       \/ /\ FirstFile(argv, 1) = Len(argv)
          /\ Len(argv) > 0
          /\ lastDiag' = diag("failed to determine errata", 0 - pte_invalid).line
    /\ UNCHANGED <<packet, ret, decoder, pos, at_psb, pkt_errcode, sync_errcode>>
    /\ UNCHANGED <<inputVars, loaderVars, mallocs, frees, config, fp, out,
                   bundleVars, errcode, ghostVars, gfault>>

\* fopen("bundles.json", "w+") and the first fprintf; fp is not checked, and
\* fprintf on a null stream ends the process with a signal
MainOpenOut ==
    /\ pc = "open_out"
    /\ \/ /\ fp' = "open"
          /\ out' = << <<"bundle[">> >>
          /\ pc' = "dump"
          /\ UNCHANGED exit_status
       \/ /\ fp' = "null"
          /\ pc' = "crashed"
          /\ exit_status' = <<"signal">>
          /\ UNCHANGED out
    /\ UNCHANGED <<inputVars, loaderVars, errmsg, mallocs, frees, config,
                   bundleVars, driverVars, errcode, ghostVars, gfault>>

\* what dump returns when pt_pkt_alloc_decoder fails: diag(..., 0ull, 0)
dump_no_decoder == diag("failed to allocate decoder", 0).ret

\* dump: pt_pkt_alloc_decoder
DumpAlloc ==
    /\ pc = "dump"
    /\ \/ /\ decoder' = "allocated"
          /\ pc' = "sync"
          /\ UNCHANGED <<errcode, lastDiag>>
       \/ /\ lastDiag' = diag("failed to allocate decoder", 0).line
          /\ errcode' = dump_no_decoder
          /\ pc' = "finish"
          /\ UNCHANGED decoder
    /\ UNCHANGED <<packet, ret, pos, at_psb, pkt_errcode, sync_errcode>>
    /\ UNCHANGED <<inputVars, loaderVars, errmsg, mallocs, frees, config, fp, out,
                   bundleVars, exit_status, ghostVars, gfault>>

\* dump_sync returns a sync error; dump frees the decoder and returns it to main
SyncFailed(e) ==
    /\ sync_errcode' = e
    /\ lastDiag' = diag("sync error", e).line
    /\ errcode' = diag("sync error", e).ret
    /\ decoder' = "freed"
    /\ pc' = "finish"

\* the positions at which pt_pkt_sync_forward can find a PSB
SyncTargets(from) == {q \in from..(MaxPos - 1) : TRUE}

\* dump_sync: pt_pkt_sync_set(0), pt_pkt_sync_forward
DumpSyncStart ==
    /\ pc = "sync"
    /\ \/ /\ SyncFailed(0 - pte_invalid)
          /\ UNCHANGED <<pos, at_psb>>
       \/ /\ SyncFailed(0 - pte_eos)
          /\ UNCHANGED <<pos, at_psb>>
       \/ /\ \E q \in SyncTargets(0) : pos' = q
          /\ at_psb' = TRUE
          /\ sync_errcode' = 0
          /\ pc' = "pull"
          /\ UNCHANGED <<lastDiag, errcode, decoder>>
    /\ UNCHANGED <<packet, ret, pkt_errcode>>
    /\ UNCHANGED <<inputVars, loaderVars, errmsg, mallocs, frees, config, fp, out,
                   bundleVars, exit_status, ghostVars, gfault>>

\* variant with a fault: any error of pt_pkt_next ends dump_packets with 0
dump_packets_on_error_stop(e) == "finish"

\* variant with a fault: after bytes that do not decode the loop of
\* dump_packets goes on with the next pt_pkt_next
dump_packets_on_error_retry(e) == IF e = 0 - pte_eos THEN "finish" ELSE "pull"

\* where control goes when pt_pkt_next fails: -pte_eos returns 0 and ends the
\* pass, any other error returns it to dump_sync's loop
dump_packets_on_error(e) == IF e = 0 - pte_eos THEN "finish" ELSE "resync"

\* dump_packets: pt_pkt_get_offset, pt_pkt_next
DumpPacketsNext ==
    /\ pc = "pull"
    /\ \/ \* pt_pkt_get_offset fails
          /\ pkt_errcode' = 0 - pte_nosync
          /\ lastDiag' = diag("error getting offset", 0 - pte_nosync).line
          /\ pc' = "resync"
          /\ UNCHANGED <<packet, pos, at_psb, errcode, decoder>>
       \/ \* end of stream
          /\ ~at_psb
          /\ pkt_errcode' = 0 - pte_eos
          /\ pc' = dump_packets_on_error(0 - pte_eos)
          /\ errcode' = 0
          /\ decoder' = "freed"
          /\ UNCHANGED <<packet, pos, at_psb, lastDiag>>
       \/ \* bytes that do not decode
          /\ ~at_psb
          /\ pos < MaxPos
          /\ \E e \in DecodeErrors :
               /\ pkt_errcode' = e
               /\ lastDiag' = diag("error decoding packet", e).line
               /\ pc' = dump_packets_on_error(e)
               /\ errcode' = IF dump_packets_on_error(e) = "finish" THEN 0 ELSE errcode
               /\ decoder' = IF dump_packets_on_error(e) = "finish"
                             THEN "freed" ELSE decoder
          /\ UNCHANGED <<packet, pos, at_psb>>
       \/ \* a packet
          /\ pos < MaxPos
          /\ \E p \in DriverPackets :
               /\ at_psb => p = <<"ppt_psb">>
               /\ packet' = p
          /\ pkt_errcode' = 1
          /\ pos' = pos + 1
          /\ at_psb' = FALSE
          /\ pc' = "bundle"
          /\ UNCHANGED <<lastDiag, errcode, decoder>>
    /\ gfault' = (gfault \/ (pkt_errcode' \in DecodeErrors /\ got_pip = 1))
    /\ UNCHANGED <<ret, sync_errcode>>
    /\ UNCHANGED <<inputVars, loaderVars, errmsg, mallocs, frees, config, fp, out,
                   bundleVars, exit_status, ghostVars>>

\* dump_packets: dump_bundle on the packet just pulled; a negative return
\* leaves dump_packets for dump_sync's loop
DumpPacketsBundle ==
    /\ pc = "bundle"
    /\ CallDumpBundle(packet)
    /\ pc' = IF ret' < 0 THEN "resync" ELSE "pull"
    /\ UNCHANGED <<packet, decoder, pos, at_psb, pkt_errcode, sync_errcode, lastDiag>>
    /\ UNCHANGED <<inputVars, loaderVars, errmsg, mallocs, frees, config, fp,
                   errcode, exit_status>>

\* variant with a fault: a successful resynchronization starts the state
\* machine afresh
DumpSyncForward_resets ==
    /\ pc = "resync"
    /\ \/ /\ SyncFailed(0 - pte_eos)
          /\ UNCHANGED <<pos, at_psb, bundleVars>>
       \/ /\ \E q \in SyncTargets(IF pkt_errcode \in DecodeErrors THEN pos + 1 ELSE pos) :
               pos' = q
          /\ at_psb' = TRUE
          /\ sync_errcode' = 0
          /\ pc' = "pull"
          /\ got_pip' = 0 /\ got_pad' = 0 /\ got_vmcs' = 0 /\ pad_cnt' = 0
          /\ UNCHANGED <<lastDiag, errcode, decoder>>
    /\ UNCHANGED <<packet, ret, pkt_errcode>>
    /\ UNCHANGED <<inputVars, loaderVars, errmsg, mallocs, frees, config, fp, out,
                   exit_status, ghostVars, gfault>>

\* dump_sync's loop: pt_pkt_sync_forward after dump_packets returned an error.
\* Bytes that failed to decode are no PSB, so the search ends beyond them.
DumpSyncForward ==
    /\ pc = "resync"
    /\ \/ /\ SyncFailed(0 - pte_eos)
          /\ UNCHANGED <<pos, at_psb>>
       \/ /\ \E q \in SyncTargets(IF pkt_errcode \in DecodeErrors THEN pos + 1 ELSE pos) :
               pos' = q
          /\ at_psb' = TRUE
          /\ sync_errcode' = 0
          /\ pc' = "pull"
          /\ UNCHANGED <<lastDiag, errcode, decoder>>
    /\ UNCHANGED <<packet, ret, pkt_errcode>>
    /\ UNCHANGED <<inputVars, loaderVars, errmsg, mallocs, frees, config, fp, out,
                   bundleVars, exit_status, ghostVars, gfault>>

\* main after dump: the closing fprintf, fclose, free(config.begin), return -errcode
MainFinish ==
    /\ pc = "finish"
    /\ out' = Append(out, <<"]">>)
    /\ fp' = "closed"
    /\ frees' = frees + 1
    /\ exit_status' = ExitStatus(0 - errcode)
    /\ pc' = "done"
    /\ UNCHANGED <<inputVars, loaderVars, errmsg, mallocs, config, bundleVars,
                   driverVars, errcode, ghostVars, gfault>>

Next ==
    \/ MainArgs
    \/ LoadFileOpen
    \/ LoadFileRange
    \/ LoadFileAlloc
    \/ LoadFileRead
    \/ LoadPt
    \/ MainOpenOut
    \/ DumpAlloc
    \/ DumpSyncStart
    \/ DumpPacketsNext
    \/ DumpPacketsBundle
    \/ DumpSyncForward
    \/ MainFinish

Spec == Init /\ [][Next]_vars

\* a successful pt_pkt_sync_forward in dump_sync's loop leaves the decoder
\* strictly beyond the position it was called at
SyncMovesForward == (pc = "resync" /\ pc' = "pull") => pos' > pos

\* the program with a decoder whose forward synchronization makes progress
NextPass ==
    \/ MainArgs
    \/ LoadFileOpen
    \/ LoadFileRange
    \/ LoadFileAlloc
    \/ LoadFileRead
    \/ LoadPt
    \/ MainOpenOut
    \/ DumpAlloc
    \/ DumpSyncStart
    \/ DumpPacketsNext
    \/ DumpPacketsBundle
    \/ DumpSyncForward /\ SyncMovesForward
    \/ MainFinish

\* one thread of control and every call returns: a step that can be taken is taken
SpecPass == Init /\ [][NextPass]_vars /\ WF_vars(NextPass)

NextLoader == LoadFileOpen \/ LoadFileRange \/ LoadFileAlloc \/ LoadFileRead \/ LoadPt

SpecLoader == InitLoader /\ [][NextLoader]_vars

-----------------------------------------------------------------------------
(* Properties *)

\* C1: when the packets handed to dump_bundle so far are k complete sequences
\* [ContextChange, Padding x 8, ControlStructure, Timestamp] with packets of
\* other types anywhere among them, the output holds exactly k complete
\* records, in stream order, the i-th with the payloads of the i-th sequence.
C1_KSequencesKRecords ==
    (gok /\ gphase = 0) =>
        /\ WellFormed(Body(out))
        /\ Records(Body(out)) = gexp

\* two complete sequences with different payloads have been fed, with a
\* packet of another type inside one of them
C1_TwoSequencesFed ==
    /\ gok /\ gphase = 0
    /\ Len(gexp) = 2
    /\ gexp[1] # gexp[2]
    /\ gmixed
    /\ Len(Subobjects(out)) = 6

\* C2: when the process has ended, the output holds complete records only:
\* nothing of a bundle whose Timestamp was never accepted.
C2_NoPartialRecord ==
    (pc = "done" /\ fp = "closed") => WellFormed(Body(out))

\* C3: a ControlStructure handed over when fewer than 8 Padding packets came
\* since the ContextChange that began the bundle is not accepted: nothing is
\* written and got_vmcs is 0.
C3_ShortPaddingRejects ==
    (packet[1] = "ppt_vmcs" /\ pads_since < PadRun) =>
        /\ out = pre.out
        /\ got_vmcs = 0

\* errors of pt_pkt_get_offset / pt_pkt_next other than end of stream
IsPullError(e) == e < 0 /\ e # 0 - pte_eos

\* C4: a failed pull other than end-of-stream is reported by diag and leads to
\* pt_pkt_sync_forward; after it the pass is either resynchronizing, decoding
\* again from the PSB found, or ended by a failed pt_pkt_sync_forward. A pass
\* that ran ends with 0 at end-of-stream or with the negative code of a failed
\* synchronization, and never otherwise.
C4_DriverRecovers ==
    /\ (pc = "resync" /\ IsPullError(pkt_errcode)) =>
           /\ lastDiag[1] \in {"error decoding packet", "error getting offset"}
           /\ lastDiag[2] = pkt_errcode
    /\ IsPullError(pkt_errcode) =>
           \/ pc = "resync"
           \/ pc = "pull" /\ at_psb /\ sync_errcode = 0
           \/ pc \in {"finish", "done"} /\ sync_errcode < 0
    /\ (pc \in {"finish", "done"} /\ decoder = "freed") =>
           \/ errcode = 0 /\ pkt_errcode = 0 - pte_eos /\ sync_errcode = 0
           \/ errcode < 0 /\ sync_errcode = errcode
                /\ lastDiag = <<"sync error", errcode>>

\* a pass met bytes that do not decode, resynchronized, and ended with 0 at
\* end-of-stream
C4_RecoveredPass ==
    /\ pc = "done"
    /\ exit_status = ExitStatus(0)
    /\ lastDiag[1] = "error decoding packet"
    /\ pkt_errcode = 0 - pte_eos

\* C5: the exit status is 0 only when the file was loaded and the pass reached
\* end-of-stream.
C5_ExitZeroOnlyOnSuccess ==
    exit_status = ExitStatus(0) =>
        /\ lf_ret = 0
        /\ decoder = "freed"
        /\ pkt_errcode = 0 - pte_eos

\* C6: a ContextChange handed over while got_pip is 1 leaves the three flags,
\* the padding counter and the output as they were.
C6_SecondContextChangeIgnored ==
    (packet[1] = "ppt_pip" /\ pre.got_pip = 1) =>
        /\ got_pip = 1
        /\ got_pad = pre.got_pad
        /\ got_vmcs = pre.got_vmcs
        /\ pad_cnt = pre.pad_cnt
        /\ out = pre.out

\* a ContextChange with another payload came while the first bundle was open
C6_SecondContextChangeSeen ==
    /\ packet = <<"ppt_pip", 2, 1>>
    /\ pre.got_pip = 1
    /\ pre.pad_cnt > 0
    /\ out = << <<"bundle[">>, <<"{">>, <<"packet[">>, <<"PIP", 1, 0>> >>

\* C7: every packet pulled is handed to dump_bundle before the next pull, and
\* the forward resynchronization, which skips stream content, runs only after
\* a pull that failed: no packet outside an errored span is dropped.
C7_NoPacketDroppedOutsideErrors ==
    /\ pc = "bundle" => pkt_errcode > 0
    /\ pc = "resync" => IsPullError(pkt_errcode)

\* the requested range is one the loader must refuse
InvalidRange ==
    \/ end_arg <= begin_arg
    \/ begin_arg >= file_size
    \/ end_arg > file_size
    \/ begin_arg > LongMax(long_bits)
    \/ end_arg > LongMax(long_bits)

\* parse_range has set begin_arg and end_arg
RangeRequested ==
    \/ pc \in {"load_alloc", "load_read", "crashed"}
    \/ /\ pc = "load_ret"
       /\ errmsg \notin {"failed to open", "failed to determine size", "bad range: "}

\* C8: for a range with end <= begin, begin >= file_size, end > file_size or a
\* bound that does not fit long, load_file never reaches malloc and fails.
C8_InvalidRangeNoAllocation ==
    (RangeRequested /\ InvalidRange) =>
        /\ pc \notin {"load_alloc", "load_read", "crashed"}
        /\ mallocs = 0
        /\ lf_ret < 0

\* the range specifier is one unsigned number that fits uint64_t
IsNumber(r) ==
    /\ r # NoRange
    /\ r # <<>>
    /\ \A i \in 1..Len(r) : r[i] \in Digits
    /\ DecVal(r, 0) <= ULLONG_MAX

\* C9: for begin < end <= file_size load_file fails only when malloc, fseek
\* or fread fails, and on success the buffer has end - begin bytes, the bytes
\* of the file at offsets begin .. end-1; without a range specifier begin is 0
\* and end is file_size, and a single number sets begin and leaves end at
\* file_size.
C9_LoaderSlice ==
    /\ (pc = "load_ret" /\ lf_ret = 0) =>
          /\ begin_arg < end_arg /\ end_arg <= file_size
          /\ fsize = end_arg - begin_arg
          /\ Len(content) = end_arg - begin_arg
          /\ \A i \in 1..Len(content) : content[i] = FileBytes[begin_arg + i]
          /\ range = NoRange => (begin_arg = 0 /\ end_arg = file_size)
          /\ IsNumber(range) => (begin_arg = DecVal(range, 0) /\ end_arg = file_size)
    /\ (/\ pc \in {"load_ret", "crashed"}
        /\ lf_ret # 0 \/ pc = "crashed"
        /\ errmsg \notin {"failed to open", "failed to determine size", "bad range: "}
        /\ begin_arg < end_arg /\ end_arg <= file_size) =>
          /\ pc = "load_ret"
          /\ errmsg \in {"failed to allocated memory", "failed to load"}

\* the range 1-2 of a three byte file has been loaded
C9_SliceLoaded ==
    /\ pc = "load_ret" /\ lf_ret = 0
    /\ range = <<"1", "-", "2">>
    /\ file_size = 3
    /\ content = <<1>>

\* C10: a trace buffer that was allocated is released exactly once: never
\* twice, not while the pass runs, and it is released when the process ends.
C10_BufferReleasedOnce ==
    /\ frees <= mallocs
    /\ pc \in {"open_out", "dump", "sync", "pull", "bundle", "resync", "finish"} =>
           (mallocs = 1 /\ frees = 0)
    /\ pc \in {"done", "crashed"} => frees = mallocs

\* the process ended with an argument error
ArgumentError == errmsg \in {"No processor trace file specified.", "usage"}

\* C11: when the file argument is missing or followed by another argument, or
\* load_file fails, main returns -1 as its next step: bundles.json is never opened or
\* written, no decoder is allocated and no packet is pulled.
C11_ErrorsBeforeCore ==
    (ArgumentError \/ lf_ret < 0) =>
        /\ pc \in {"load_ret", "done"}
        /\ pc = "done" => exit_status = ExitStatus(-1)
        /\ fp = "null" /\ out = <<>>
        /\ decoder = "none"
        /\ pos = 0 /\ packet = <<"none">> /\ pkt_errcode = 0

\* the loader failed after its buffer had been allocated, and the process ended
C11_LoadFailedLate ==
    /\ pc = "done"
    /\ lf_ret < 0
    /\ errmsg = "failed to load"
    /\ mallocs = 1

\* C12: every record written holds exactly three sub-objects, one PIP, one
\* VMCS and one TSC in this order, so whenever no record is open the output is
\* a run of such records.
C12_RecordsHaveThreeSubobjects ==
    got_pip = 0 => WellFormed(Body(out))

\* load_pt succeeded: config holds the buffer
PassedLoading == config.size > 0

\* how many of the items written are t
Count(toks, t) == Len(SelectSeq(toks, LAMBDA x : x = t))

\* C13: on a run that passed loading the wrapper is written exactly once: the
\* opener is the first item written and, when the process has ended, the closer
\* is the last one, whatever the pass returned; when nothing was decoded the
\* output is the opener followed by the closer.
C13_WrapperWrittenOnce ==
    /\ Count(out, <<"bundle[">>) <= 1 /\ Count(out, <<"]">>) <= 1
    /\ (PassedLoading /\ pc \in {"done", "crashed"}) =>
          /\ Len(out) >= 2
          /\ out[1] = <<"bundle[">>
          /\ out[Len(out)] = <<"]">>
          /\ pos = 0 => out = << <<"bundle[">>, <<"]">> >>

\* the last packet handed to dump_bundle was a Timestamp and was accepted
TimestampAccepted ==
    packet[1] = "ppt_tsc" /\ pre.got_pip = 1 /\ pre.got_vmcs = 1

\* C14: an accepted Timestamp clears got_pip and got_vmcs and leaves got_pad
\* and pad_cnt as they were, and no packet clears got_pad once it is set.
C14_TimestampKeepsPaddingRun ==
    /\ TimestampAccepted =>
          /\ got_pip = 0 /\ got_vmcs = 0
          /\ got_pad = pre.got_pad
          /\ pad_cnt = pre.pad_cnt
    /\ pre.got_pad = 1 => got_pad = 1

\* after a first record, a second bundle's ControlStructure has been accepted
\* with no Padding since that bundle's ContextChange
C14_LaterBundleWithoutPadding ==
    /\ packet[1] = "ppt_vmcs"
    /\ pads_since = 0
    /\ pre.got_vmcs = 0 /\ got_vmcs = 1
    /\ Len(out) = Len(pre.out) + 1
    /\ IsRecordAt(out, 2)
    /\ Count(out, <<"{">>) = 2

\* C15: after an accepted Timestamp the state is reset: the three flags are 0
\* and the padding counter is 0.
C15_ResetAfterMatch ==
    TimestampAccepted =>
        /\ got_pip = 0 /\ got_pad = 0 /\ got_vmcs = 0
        /\ pad_cnt = 0

\* C16: a Padding handed over while got_pip is 1 and got_pad is 0 adds one to
\* the counter, and the eighth sets got_pad and puts the counter back to 0; in
\* any other state a Padding leaves the flags and the counter as they were.
\* The counter is within 0..8 in every state.
C16_PaddingCountedInWindow ==
    /\ pad_cnt \in 0..PadRun
    /\ packet[1] = "ppt_pad" =>
          /\ got_pip = pre.got_pip /\ got_vmcs = pre.got_vmcs
          /\ IF pre.got_pip = 1 /\ pre.got_pad = 0
             THEN IF pre.pad_cnt + 1 = PadRun
                  THEN got_pad = 1 /\ pad_cnt = 0
                  ELSE got_pad = 0 /\ pad_cnt = pre.pad_cnt + 1
             ELSE got_pad = pre.got_pad /\ pad_cnt = pre.pad_cnt

\* C17: dump_bundle never reports an error: what it hands back to dump_packets
\* is never negative, whatever the packet and the state, and a packet of a type
\* other than ContextChange, Padding, ControlStructure and Timestamp leaves
\* the flags, the counter and the output as they were.
C17_StateMachineNeverFails ==
    /\ ret >= 0
    /\ (IsOther(packet) /\ packet # <<"none">> /\ pc \in {"pull", "resync"}) =>
          /\ got_pip = pre.got_pip /\ got_pad = pre.got_pad
          /\ got_vmcs = pre.got_vmcs /\ pad_cnt = pre.pad_cnt
          /\ out = pre.out

\* dump_sync has returned: at end-of-stream or with a failed synchronization
PassEnded ==
    /\ pc \in {"finish", "done"}
    /\ decoder = "freed"
    /\ pkt_errcode = 0 - pte_eos \/ sync_errcode < 0

\* C18: when every call returns and a successful forward synchronization
\* moves the decoder strictly forward, a pass that has its decoder ends: it
\* reaches end-of-stream or a failed synchronization, wherever the bytes that
\* do not decode lie.
C18_PassTerminates == (decoder = "allocated") ~> PassEnded

\* a pass that resynchronized after bytes that do not decode ended with a
\* failed synchronization
C18_EndedAfterResync ==
    /\ pc = "finish"
    /\ decoder = "freed"
    /\ lastDiag = <<"sync error", 0 - pte_eos>>
    /\ pkt_errcode \in DecodeErrors
    /\ pos > 2

\* records opened and not yet closed
OpenRecords(toks) == Count(toks, <<"{">>) - Count(toks, <<"]}">>)

IsPrefix(a, b) == Len(a) <= Len(b) /\ SubSeq(b, 1, Len(a)) = a

\* the last packet handed to dump_bundle was a ContextChange and was accepted
ContextChangeAccepted == packet[1] = "ppt_pip" /\ pre.got_pip = 0

\* C19: the output holds an opened, not yet closed record exactly when got_pip
\* is 1, and never more than one; a call of dump_bundle opens a record exactly
\* when it accepts a ContextChange and closes one exactly when it accepts a
\* Timestamp; what was written before the call is still there, the output
\* grows at its end only.
C19_OpenRecordIffContextChange ==
    /\ OpenRecords(out) = got_pip
    /\ got_pip \in {0, 1}
    /\ IsPrefix(pre.out, out)
    /\ Count(out, <<"{">>) =
          Count(pre.out, <<"{">>) + (IF ContextChangeAccepted THEN 1 ELSE 0)
    /\ Count(out, <<"]}">>) =
          Count(pre.out, <<"]}">>) + (IF TimestampAccepted THEN 1 ELSE 0)

\* a second record has been opened after a first one was closed
C19_SecondRecordOpen ==
    /\ ContextChangeAccepted
    /\ got_pip = 1
    /\ Count(out, <<"]}">>) = 1
    /\ Count(out, <<"{">>) = 2
    /\ Len(out) = Len(pre.out) + 3

\* C20: pulling a packet, also when the pull meets bytes that do not decode,
\* and the resynchronization that follows leave the three flags, the padding
\* counter and the output exactly as they were, so a bundle begun before the
\* fault is completed by the packets after it.
C20_FaultKeepsBundleState ==
    [][(pc \in {"pull", "resync"}) =>
          (UNCHANGED <<got_pip, got_pad, got_vmcs, pad_cnt, out>>)]_vars

\* one record has been closed by a ControlStructure and a Timestamp that came
\* after bytes that did not decode, its ContextChange and padding run before
C20_RecordAcrossFault ==
    /\ gfault
    /\ TimestampAccepted
    /\ pc = "pull"
    /\ pads_since = PadRun
    /\ out = << <<"bundle[">>, <<"{">>, <<"packet[">>, <<"PIP", 1, 0>>,
                <<"VMCS", 3>>, <<"TSC", 5>>, <<"]}">> >>
    /\ lastDiag[1] = "error decoding packet"

====
